---- MODULE Spec2Model ----
(***************************************************************************)
(* Model of scripts/makinoa/__main__.py: a build pipeline that compiles    *)
(* the C sources of a project, links the long-call objects into one        *)
(* relocatable object, looks for a run of erased words in rom.gba and      *)
(* hands the address found to armips.                                      *)
(*                                                                         *)
(* Strings the program inspects (configuration values, file names) are     *)
(* sequences of one-character strings; the bytes of rom.gba are a sequence *)
(* of numbers 0..255.  The script is one sequential process: pc is its     *)
(* position.                                                               *)
(***************************************************************************)
EXTENDS Integers, Sequences, FiniteSets, TLC

\* ------------------------------------------------------------------ bounds
\* Longest image of ScanSpec, in 4-byte words (a trailing partial word may follow).
MaxWords == 5
\* Largest reserve of ScanSpec, in words.
MaxNeeded == 4

\* ------------------------------------------------------- program constants
offset_mask == 134217728

\* Python's None where the program holds None or a non-negative integer.
None == -1

\* ------------------------------------------------------------ int parsing
Digits == <<"0", "1", "2", "3", "4", "5", "6", "7", "8", "9",
            "a", "b", "c", "d", "e", "f">>
UpperDigits == <<"0", "1", "2", "3", "4", "5", "6", "7", "8", "9",
                 "A", "B", "C", "D", "E", "F">>

\* The value of digit c in the given base, or None when c is no digit of it.
DigitVal(c, base) ==
    LET hits == {i \in 1..base : Digits[i] = c \/ UpperDigits[i] = c}
    IN  IF hits = {} THEN None ELSE (CHOOSE i \in hits : TRUE) - 1

RECURSIVE DigitsVal(_, _, _)
\* Horner evaluation of a digit string; None when some character is no digit.
DigitsVal(s, base, acc) ==
    IF s = <<>> THEN acc
    ELSE LET d == DigitVal(Head(s), base)
         IN  IF d = None THEN None ELSE DigitsVal(Tail(s), base, acc * base + d)

\* int(s, base) for base 10 or 16: an optional sign, for base 16 an optional
\* 0x prefix, then at least one digit.  ok = FALSE stands for ValueError.
ParseInt(s, base) ==
    LET neg  == s # <<>> /\ Head(s) = "-"
        pos  == s # <<>> /\ Head(s) = "+"
        s1   == IF neg \/ pos THEN Tail(s) ELSE s
        pre  == base = 16 /\ Len(s1) >= 2 /\ s1[1] = "0" /\ s1[2] \in {"x", "X"}
        s2   == IF pre THEN SubSeq(s1, 3, Len(s1)) ELSE s1
        v    == IF s2 = <<>> THEN None ELSE DigitsVal(s2, base, 0)
    IN  IF v = None THEN [ok |-> FALSE, val |-> 0]
        ELSE [ok |-> TRUE, val |-> IF neg THEN 0 - v ELSE v]

\* ------------------------------------------------------------- bit algebra
RECURSIVE BitOr(_, _)
\* x | y for non-negative x, y.
BitOr(x, y) ==
    IF x = 0 THEN y
    ELSE IF y = 0 THEN x
    ELSE 2 * BitOr(x \div 2, y \div 2) + (IF x % 2 = 1 \/ y % 2 = 1 THEN 1 ELSE 0)

RECURSIVE BitXor(_, _)
\* x ^ y for non-negative x, y.
BitXor(x, y) ==
    IF x = 0 THEN y
    ELSE IF y = 0 THEN x
    ELSE 2 * BitXor(x \div 2, y \div 2) + (IF x % 2 # y % 2 THEN 1 ELSE 0)

\* Whether bit m (a power of two) is set in non-negative x.
HasBit(x, m) == (x \div m) % 2 = 1

\* round_up_to_4 that always moves to the next word, aligned or not.
round_up_to_4_always(x) == (x \div 4 + 1) * 4

RECURSIVE round_up_to_4(_)
\* x & 0x3 is x mod 4 for every Python integer, negative ones included.
round_up_to_4(x) ==
    IF x % 4 = 0 THEN x ELSE round_up_to_4(x + 1)

\* x >> 2 is floor division by 4, negative x included.
ShiftRight2(x) == x \div 4

\* x << 2.
ShiftLeft2(x) == x * 4

\* --------------------------------------------------------------- file names
\* fnmatch.fnmatch(path, "*.c"): the name ends with ".c".
fnmatch_c(path) ==
    Len(path) >= 2 /\ path[Len(path) - 1] = "." /\ path[Len(path)] = "c"

RECURSIVE replace_c_o(_)
\* srcfile.replace(".c", ".o"): every occurrence, left to right.
replace_c_o(s) ==
    IF Len(s) < 2 THEN s
    ELSE IF s[1] = "." /\ s[2] = "c"
         THEN <<".", "o">> \o replace_c_o(SubSeq(s, 3, Len(s)))
         ELSE <<Head(s)>> \o replace_c_o(Tail(s))

relocatable_o == <<"r", "e", "l", "o", "c", "a", "t", "a", "b", "l", "e", ".", "o">>
main_asm == <<"m", "a", "i", "n", ".", "a", "s", "m">>

\* The calling-convention flag with the two cases exchanged.
CallFlagSwapped(srcfile, shorts) ==
    IF srcfile \in shorts THEN "-mlong-calls" ELSE "-mno-long-calls"

\* The one calling-convention flag of a compiler call.
CallFlag(srcfile, shorts) ==
    IF srcfile \in shorts THEN "-mno-long-calls" ELSE "-mlong-calls"

\* The objects handed to the linker.
LinkInputs(longs) == {replace_c_o(f) : f \in longs}

\* A link step that runs the linker on no inputs too.
NeedsLinkAlways(longs) == TRUE

\* if long_calls:
NeedsLink(longs) == longs # {}

\* An exit that reports failure as 1 whatever the tool returned.
SysExitOne(code) == 1

\* sys.exit(code): the process exit status keeps the low 8 bits.
SysExit(code) == code % 256

\* A level check that lets -Oz through as well.
OptLevelsLax == {"-O", "-O0", "-O1", "-O2", "-O3", "-Ofast", "-Og", "-Os", "-Oz"}

\* The optimization levels the script accepts.
OptLevels == {"-O", "-O0", "-O1", "-O2", "-O3", "-Ofast", "-Og", "-Os"}

\* ------------------------------------------------------------- the locator
\* val == b"\xff\xff\xff\xff"
IsErased(val) == val = <<255, 255, 255, 255>>

\* rom.read(n) at position pos: the bytes left, n at most.
ReadBytes(image, pos, n) ==
    IF pos >= Len(image) THEN <<>>
    ELSE SubSeq(image, pos + 1, IF pos + n <= Len(image) THEN pos + n ELSE Len(image))

\* A loop body that moves the run start to every erased word it reads.
ScanUpdateLastWord(rec, st, val, told) ==
    IF IsErased(val)
    THEN [record |-> IF st = None /\ rec = 0 THEN 1
                     ELSE IF st = None THEN rec ELSE rec + 1,
          start  |-> told - 4]
    ELSE [record |-> rec, start |-> None]

\* One pass of the loop body after val has been read; told is rom.tell()
\* after the read.
ScanUpdate(rec, st, val, told) ==
    IF IsErased(val)
    THEN IF st = None
         THEN [record |-> IF rec = 0 THEN 1 ELSE rec, start |-> told - 4]
         ELSE [record |-> rec + 1, start |-> st]
    ELSE [record |-> rec, start |-> None]

\* A normalization that sets the bit and forgets to align.
NormalizeFreeSpaceUnaligned(fs) == BitOr(fs, offset_mask)

\* free_space |= offset_mask; free_space = round_up_to_4(free_space)
NormalizeFreeSpace(fs) == round_up_to_4(BitOr(fs, offset_mask))

\* needed_words = round_up_to_4(size + reserve) >> 2
NeededWords(size, res) == ShiftRight2(round_up_to_4(size + res))

\* rom.seek(offset_mask ^ free_space)
SeekOffset(fs) == BitXor(offset_mask, fs)

\* What find_needed_words returns when needed_words is 0.
ShortCircuitResult(fs) == 0

\* ------------------------------------------------------------------ inputs
\* Exit statuses an external tool may return.
ExitCodes == {0, 1, 255}

\* Sizes the linker's output may have, in bytes.
MaxBlob == 2
BlobSizes == 0..MaxBlob

\* Entries of the src directory, and the names config.ini may list.
a_c == <<"a", ".", "c">>
b_c == <<"b", ".", "c">>
n_h == <<"n", ".", "h">>
DirNames == {a_c, b_c, n_h}
ShortNames == {a_c, b_c}

\* n copies of byte b.
Rep(b, n) == [i \in 1..n |-> b]

\* The image of the end-to-end scenario: 64 bytes of 00, 16 of FF, 32 of 00.
RomScenario == Rep(0, 64) \o Rep(255, 16) \o Rep(0, 32)
\* An image whose erased block runs to the end, with a partial word after it.
RomOpenEnd == Rep(0, 64) \o Rep(255, 24) \o Rep(255, 2)
PipelineRoms == {RomScenario, RomOpenEnd}

\* free-space values of config.ini: the scenario's block, an unaligned hint,
\* the default, a hint whose low bits are all ones, and a malformed one.
PipelineFreeSpace ==
    { <<"0", "x", "0", "8", "0", "0", "0", "0", "4", "0">>,
      <<"4", "1">>,
      <<"0", "x", "0", "8", "8", "0", "0", "0", "0", "0">>,
      <<"0", "x", "0", "F", "F", "F", "F", "F", "F", "D">>,
      <<"z", "z">> }

\* reserve values of config.ini.
PipelineReserve ==
    { <<"0">>, <<"3">>, <<"8">>, <<"2", "0">>, <<"-", "8">>, <<"1", "x">> }

PipelineOpt == {"-O2", "-Oz"}

\* The defines section of config.ini: name and optional value.
PipelineDefines ==
    { <<>>, <<[name |-> "FLAG", hasval |-> FALSE, val |-> ""]>> }

\* Images of ScanSpec: up to MaxWords words, each erased, nearly erased or
\* zero, then nothing or half a word.
WordVals == { <<255, 255, 255, 255>>, <<255, 255, 255, 0>>, <<0, 0, 0, 0>> }

RECURSIVE WordImages(_)
WordImages(n) ==
    IF n = 0 THEN {<<>>}
    ELSE LET shorter == WordImages(n - 1)
         IN  shorter \cup {w \o img : w \in WordVals,
                                      img \in {i \in shorter : Len(i) = 4 * (n - 1)}}

ScanRoms == {img \o tail : img \in WordImages(MaxWords), tail \in {<<>>, <<255, 255>>}}

\* Hints of ScanSpec: short hexadecimal strings up to one word past MaxWords.
ScanFreeSpace ==
    {s \in {<<Digits[d + 1]>> : d \in {0, 3, 4, 8, 12}}
           \cup {<<"1", Digits[d + 1]>> : d \in {0, 4, 8, 12}} :
        ParseInt(s, 16).val <= 4 * (MaxWords + 1)}

\* Reserves of ScanSpec: decimal strings up to MaxNeeded words, and a negative one.
ScanReserve ==
    {s \in {<<"0">>, <<"4">>, <<"7">>, <<"1", "2">>, <<"1", "6">>, <<"2", "0">>,
            <<"2", "4">>, <<"-", "4">>} :
        ParseInt(s, 10).val <= 4 * MaxNeeded}

\* ------------------------------------------------------------------- state
VARIABLES
    pc,            \* position of the script
    cfg,           \* config.ini as read: free_space, reserve, optimization_level
    short_calls,   \* keys of the short-calls section
    defines,       \* the defines section
    listdir,       \* os.listdir(src); empty when src does not exist
    rom,           \* bytes of rom.gba
    free_space,    \* free_space once parsed
    reserve,       \* reserve once parsed
    build_clean,   \* build/ and build/src have been recreated
    todo,          \* source files the compile loop has not reached
    long_calls,    \* long_calls
    calls,         \* the external tools run so far, in order, with their status
    relocatable,   \* size of build/src/relocatable.o, None while it does not exist
    needed_words,  \* needed_words
    rom_open,      \* find_needed_words holds rom.gba open
    tell,          \* rom.tell()
    record,        \* record
    start,         \* start
    allocation,    \* what find_needed_words returned, None before
    outstream,     \* what has been written to build/main.asm; <<>> before it is opened
    out_open,      \* build/main.asm has been created
    exit_code      \* exit status of the process, None while it runs

vars == <<pc, cfg, short_calls, defines, listdir, rom, free_space, reserve,
          build_clean, todo, long_calls, calls, relocatable, needed_words,
          rom_open, tell, record, start, allocation, outstream, out_open,
          exit_code>>

\* The inputs of a run, which no step changes.
inputs == <<cfg, short_calls, defines, listdir, rom>>

\* The state of the locator.
scan == <<rom_open, tell, record, start, allocation>>

Terminal == {"done", "exit", "crashed"}

\* Lines 1-31: the script has read config.ini and nothing else has happened.
Init ==
    /\ pc = "validate"
    /\ cfg \in [free_space : PipelineFreeSpace, reserve : PipelineReserve,
                optimization_level : PipelineOpt]
    /\ short_calls \in SUBSET ShortNames
    /\ defines \in PipelineDefines
    /\ listdir \in SUBSET DirNames
    /\ rom \in PipelineRoms
    /\ free_space = 0 /\ reserve = 0
    /\ build_clean = FALSE
    /\ todo = {} /\ long_calls = {} /\ calls = <<>>
    /\ relocatable = None
    /\ needed_words = 0
    /\ rom_open = FALSE /\ tell = 0 /\ record = 0 /\ start = None
    /\ allocation = None
    /\ outstream = <<>> /\ out_open = FALSE
    /\ exit_code = None

\* sys.exit(code), and an uncaught exception.
Exit(code) == pc' = "exit" /\ exit_code' = SysExit(code)

\* Lines 33-47.
Validate ==
    /\ pc = "validate"
    /\ LET fs == ParseInt(cfg.free_space, 16)
           rs == ParseInt(cfg.reserve, 10)
       IN  IF ~fs.ok THEN Exit(1) /\ UNCHANGED <<free_space, reserve>>
           ELSE IF ~rs.ok
                THEN Exit(1) /\ free_space' = fs.val /\ UNCHANGED reserve
           ELSE IF cfg.optimization_level \notin OptLevels
                THEN Exit(1) /\ free_space' = fs.val /\ reserve' = rs.val
           ELSE /\ free_space' = fs.val
                /\ reserve' = rs.val
                /\ pc' = "clean"
                /\ UNCHANGED exit_code
    /\ UNCHANGED <<inputs, scan, build_clean, todo, long_calls, calls, relocatable,
                   needed_words, outstream, out_open>>

\* Lines 49-52.
CleanBuildDir ==
    /\ pc = "clean"
    /\ build_clean' = TRUE
    /\ relocatable' = None
    /\ pc' = "devkit"
    /\ UNCHANGED <<inputs, scan, free_space, reserve, todo, long_calls, calls,
                   needed_words, outstream, out_open, exit_code>>

\* Lines 54-67 and the generator of line 92.
FindDevkit ==
    /\ pc = "devkit"
    /\ \E found \in BOOLEAN :
          IF found
          THEN /\ pc' = "compile"
               /\ todo' = {path \in listdir : fnmatch_c(path)}
               /\ UNCHANGED exit_code
          ELSE Exit(1) /\ UNCHANGED todo
    /\ UNCHANGED <<inputs, scan, free_space, reserve, build_clean, long_calls,
                   calls, relocatable, needed_words, outstream, out_open>>

\* One run of an external tool, as the script sees it.
Call(tool, flag, ins, out, equ, rc) ==
    [tool |-> tool, flag |-> flag, inputs |-> ins, output |-> out,
     equ |-> equ, rc |-> rc]

\* Lines 92-107: one pass of the compile loop.
CompileOne ==
    /\ pc = "compile"
    /\ todo # {}
    /\ \E srcfile \in todo, rc \in ExitCodes :
          /\ calls' = Append(calls, Call("CC", CallFlag(srcfile, short_calls),
                                         {srcfile}, replace_c_o(srcfile), 0, rc))
          /\ IF rc # 0
             THEN Exit(rc) /\ UNCHANGED <<todo, long_calls>>
             ELSE /\ long_calls' = IF srcfile \notin short_calls
                                   THEN long_calls \cup {srcfile}
                                   ELSE long_calls
                  /\ todo' = todo \ {srcfile}
                  /\ UNCHANGED <<pc, exit_code>>
    /\ UNCHANGED <<inputs, scan, free_space, reserve, build_clean, relocatable,
                   needed_words, outstream, out_open>>

\* Lines 109-125 when long_calls is not empty: the file is created, then linked.
Link ==
    /\ pc = "compile"
    /\ todo = {}
    /\ NeedsLink(long_calls)
    /\ \E rc \in ExitCodes, size \in BlobSizes :
          /\ calls' = Append(calls, Call("LD", "--relocatable", LinkInputs(long_calls),
                                         relocatable_o, 0, rc))
          /\ IF rc # 0
             THEN Exit(rc) /\ relocatable' = 0
             ELSE pc' = "measure" /\ relocatable' = size /\ UNCHANGED exit_code
    /\ UNCHANGED <<inputs, scan, free_space, reserve, build_clean, todo, long_calls,
                   needed_words, outstream, out_open>>

\* Lines 109-114 when long_calls is empty: the file is created and left empty.
SkipLink ==
    /\ pc = "compile"
    /\ todo = {}
    /\ ~NeedsLink(long_calls)
    /\ relocatable' = 0
    /\ pc' = "measure"
    /\ UNCHANGED <<inputs, scan, free_space, reserve, build_clean, todo, long_calls,
                   calls, needed_words, outstream, out_open, exit_code>>

\* Lines 133-137.
Measure ==
    /\ pc = "measure"
    /\ needed_words' = NeededWords(relocatable, reserve)
    /\ free_space' = NormalizeFreeSpace(free_space)
    /\ pc' = "armips"
    /\ UNCHANGED <<inputs, scan, reserve, build_clean, todo, long_calls, calls,
                   relocatable, outstream, out_open, exit_code>>

\* Lines 164-173.
FindArmips ==
    /\ pc = "armips"
    /\ \E found \in BOOLEAN :
          IF found THEN pc' = "patch" /\ UNCHANGED exit_code ELSE Exit(1)
    /\ UNCHANGED <<inputs, scan, free_space, reserve, build_clean, todo, long_calls,
                   calls, relocatable, needed_words, outstream, out_open>>

\* One entry of build/main.asm.
Entry(kind, name, num, text) ==
    [kind |-> kind, name |-> name, num |-> num, text |-> text]

\* Lines 175-179: both files are opened, the template and the marker written.
OpenPatch ==
    /\ pc = "patch"
    /\ out_open' = TRUE
    /\ outstream' = <<Entry("template", "", 0, ""), Entry("marker", "", 0, "")>>
    /\ pc' = "find"
    /\ UNCHANGED <<inputs, scan, free_space, reserve, build_clean, todo, long_calls,
                   calls, relocatable, needed_words, exit_code>>

\* Lines 139-141, called from line 180.
FindShortCircuit ==
    /\ pc = "find"
    /\ needed_words = 0
    /\ allocation' = ShortCircuitResult(free_space)
    /\ pc' = "label"
    /\ UNCHANGED <<inputs, rom_open, tell, record, start, free_space, reserve,
                   build_clean, todo, long_calls, calls, relocatable, needed_words,
                   outstream, out_open, exit_code>>

\* Lines 143-146.
FindOpen ==
    /\ pc = "find"
    /\ needed_words # 0
    /\ rom_open' = TRUE
    /\ tell' = SeekOffset(free_space)
    /\ record' = 0
    /\ start' = None
    /\ pc' = "while"
    /\ UNCHANGED <<inputs, allocation, free_space, reserve, build_clean, todo,
                   long_calls, calls, relocatable, needed_words, outstream, out_open,
                   exit_code>>

\* Line 148: the loop test.
ScanTest ==
    /\ pc = "while"
    /\ pc' = IF record < needed_words THEN "read" ELSE "return"
    /\ UNCHANGED <<inputs, scan, free_space, reserve, build_clean, todo, long_calls,
                   calls, relocatable, needed_words, outstream, out_open, exit_code>>

\* Lines 149-160: the loop body.
ScanRead ==
    /\ pc = "read"
    /\ LET val  == ReadBytes(rom, tell, 4)
           told == tell + Len(val)
           upd  == ScanUpdate(record, start, val, told)
       IN  /\ tell' = told
           /\ record' = upd.record
           /\ start' = upd.start
    /\ pc' = "while"
    /\ UNCHANGED <<inputs, rom_open, allocation, free_space, reserve, build_clean,
                   todo, long_calls, calls, relocatable, needed_words, outstream,
                   out_open, exit_code>>

\* Line 162: rom.gba is closed; None ^ offset_mask raises TypeError, which
\* nothing catches.
FindReturn ==
    /\ pc = "return"
    /\ rom_open' = FALSE
    /\ IF start = None
       THEN pc' = "crashed" /\ exit_code' = 1 /\ UNCHANGED allocation
       ELSE /\ allocation' = BitXor(start, offset_mask)
            /\ pc' = "label"
            /\ UNCHANGED exit_code
    /\ UNCHANGED <<inputs, tell, record, start, free_space, reserve, build_clean,
                   todo, long_calls, calls, relocatable, needed_words, outstream,
                   out_open>>

\* The label lines of the defines, in order; a define without value gets 0.
DefineEntries ==
    [i \in 1..Len(defines) |->
        Entry("define", defines[i].name, 0,
              IF defines[i].hasval THEN defines[i].val ELSE "0")]

\* Lines 180-182.
WriteLabels ==
    /\ pc = "label"
    /\ outstream' = Append(outstream, Entry("allocation", "allocation", allocation, ""))
                      \o DefineEntries
    /\ pc' = "assemble"
    /\ UNCHANGED <<inputs, scan, free_space, reserve, build_clean, todo, long_calls,
                   calls, relocatable, needed_words, out_open, exit_code>>

\* Lines 184-196.
Assemble ==
    /\ pc = "assemble"
    /\ \E rc \in ExitCodes :
          /\ calls' = Append(calls, Call("ARMIPS", "-sym", {main_asm}, main_asm,
                                         ShiftLeft2(needed_words), rc))
          /\ IF rc # 0 THEN Exit(rc) ELSE pc' = "done" /\ exit_code' = 0
    /\ UNCHANGED <<inputs, scan, free_space, reserve, build_clean, todo, long_calls,
                   relocatable, needed_words, outstream, out_open>>

Next ==
    \/ Validate
    \/ CleanBuildDir
    \/ FindDevkit
    \/ CompileOne
    \/ Link
    \/ SkipLink
    \/ Measure
    \/ FindArmips
    \/ OpenPatch
    \/ FindShortCircuit
    \/ FindOpen
    \/ ScanTest
    \/ ScanRead
    \/ FindReturn
    \/ WriteLabels
    \/ Assemble

Spec == Init /\ [][Next]_vars

\* The runs of the end-to-end scenario: the hint at the erased block, a valid
\* configuration, a reserve of 0 or 20 bytes, any sources and either image.
ScenarioInit ==
    /\ Init
    /\ cfg.free_space = <<"0", "x", "0", "8", "0", "0", "0", "0", "4", "0">>
    /\ cfg.reserve \in {<<"0">>, <<"2", "0">>}
    /\ cfg.optimization_level = "-O2"
    /\ defines = <<>>

\* The script is one sequential process that runs whenever it can take a step.
ScenarioSpec == ScenarioInit /\ [][Next]_vars /\ WF_vars(Next)

\* ------------------------------------------------- the locator on its own
\* The state in which line 180 calls find_needed_words, for a project without
\* sources: nothing was compiled or linked, relocatable.o is empty, the
\* template and the marker are written.
ScanInit ==
    /\ pc = "find"
    /\ cfg \in [free_space : ScanFreeSpace, reserve : ScanReserve,
                optimization_level : {"-O2"}]
    /\ short_calls = {} /\ defines = <<>> /\ listdir = {}
    /\ rom \in ScanRoms
    /\ free_space = NormalizeFreeSpace(ParseInt(cfg.free_space, 16).val)
    /\ reserve = ParseInt(cfg.reserve, 10).val
    /\ build_clean = TRUE
    /\ todo = {} /\ long_calls = {} /\ calls = <<>>
    /\ relocatable = 0
    /\ needed_words = NeededWords(0, reserve)
    /\ rom_open = FALSE /\ tell = 0 /\ record = 0 /\ start = None
    /\ allocation = None
    /\ outstream = <<Entry("template", "", 0, ""), Entry("marker", "", 0, "")>>
    /\ out_open = TRUE
    /\ exit_code = None

ScanNext ==
    \/ FindShortCircuit
    \/ FindOpen
    \/ ScanTest
    \/ ScanRead
    \/ FindReturn

ScanSpec == ScanInit /\ [][ScanNext]_vars

\* ------------------------------------------------------------------ claims
\* An address of the image's window taken back to a file offset.
FileOffset(addr) == IF HasBit(addr, offset_mask) THEN addr - offset_mask ELSE addr

\* The n words of the image from offset o on are all there and all erased.
ErasedRun(image, o, n) ==
    \A i \in 0..(n - 1) : ReadBytes(image, o + 4 * i, 4) = <<255, 255, 255, 255>>

\* The positions at which needed_words and the normalized free_space are set.
AfterMeasure == {"armips", "patch", "find", "while", "read", "return", "label",
                 "assemble", "done", "crashed"}

\* The positions inside find_needed_words.
InLocator == {"find", "while", "read", "return"}

\* find_needed_words has returned an address found by the scan.
Returned == pc = "label" /\ needed_words > 0

\* C1: whenever find_needed_words returns an address for needed_words > 0,
\* the needed_words words of the image from that address on are all erased.
C1_ReturnedRunErased ==
    Returned => ErasedRun(rom, FileOffset(allocation), needed_words)

\* C2: no word offset at or after the aligned start offset and before the
\* returned one begins a run of needed_words erased words.
C2_FirstInScanOrder ==
    Returned =>
        \A o \in SeekOffset(free_space)..(FileOffset(allocation) - 1) :
            (o - SeekOffset(free_space)) % 4 = 0 => ~ErasedRun(rom, o, needed_words)

\* C2's case: an address was returned past an erased word that began no
\* sufficient run.
C2_Witness ==
    /\ Returned
    /\ needed_words >= 2
    /\ FileOffset(allocation) >= SeekOffset(free_space) + 8
    /\ ErasedRun(rom, SeekOffset(free_space), 1)

\* C3: once the scan reads at or past the end of the image, the pipeline
\* eventually reaches a terminal state.
C3_ExhaustedScanStops ==
    (pc = "read" /\ tell >= Len(rom)) ~> (pc \in Terminal)

\* C4: with needed_words = 0 the locator returns the normalized start address,
\* that address is the value of the label allocation, and rom.gba is not opened.
C4_ZeroReturnsStart ==
    /\ (pc = "label" /\ needed_words = 0) =>
            allocation = free_space /\ ~rom_open /\ tell = 0
    /\ (pc \in {"assemble", "done"} /\ needed_words = 0) =>
            \E i \in 1..Len(outstream) :
                outstream[i].kind = "allocation" /\ outstream[i].num = free_space

\* C5: a tool that returns a non-zero status is the last tool run, it was run
\* once, and the process has ended with that status.
C5_ToolFailureStopsPipeline ==
    \A i \in 1..Len(calls) :
        calls[i].rc # 0 =>
            /\ i = Len(calls)
            /\ pc = "exit"
            /\ exit_code = calls[i].rc
            /\ \A j \in 1..Len(calls) :
                  (calls[j].tool = calls[i].tool /\ calls[j].inputs = calls[i].inputs)
                      => j = i

\* C5's case: the compiler failed with status 255 while another source file
\* was still waiting.
C5_Witness ==
    /\ calls # <<>>
    /\ calls[Len(calls)].tool = "CC"
    /\ calls[Len(calls)].rc = 255
    /\ \E f \in todo : {f} # calls[Len(calls)].inputs

\* C6: build/main.asm is neither created nor written before find_needed_words
\* has returned.
C6_PatchAfterLocate ==
    pc \in InLocator => ~out_open /\ outstream = <<>>

\* The source files of the project.
CSources == {path \in listdir : fnmatch_c(path)}

\* The compiler calls made so far.
CompilerCalls == {i \in 1..Len(calls) : calls[i].tool = "CC"}

\* C7: each compiler call has one calling-convention flag, the short-call one
\* iff the file is in short_calls; no file is compiled twice; once every
\* compilation has succeeded each source file was compiled once, and the
\* linker gets exactly the objects of the files not in short_calls.
C7_FlagsAndLinkInputs ==
    /\ \A i \in CompilerCalls :
          /\ \E f \in CSources : calls[i].inputs = {f}
          /\ calls[i].flag \in {"-mno-long-calls", "-mlong-calls"}
          /\ calls[i].flag = "-mno-long-calls" <=> calls[i].inputs \subseteq short_calls
          /\ \A j \in CompilerCalls : calls[j].inputs = calls[i].inputs => j = i
    /\ relocatable # None =>
          /\ \A f \in CSources : \E i \in CompilerCalls : calls[i].inputs = {f}
          /\ \A k \in 1..Len(calls) :
                calls[k].tool = "LD" =>
                    calls[k].inputs =
                        {calls[i].output : i \in {j \in CompilerCalls :
                                   calls[j].inputs \cap short_calls = {}}}

\* C7's case: two files compiled, one of them with short calls, the other
\* linked, and the run completed.
C7_Witness ==
    /\ pc = "done"
    /\ Len(calls) = 4
    /\ short_calls = {a_c}
    /\ calls[3].tool = "LD"

\* C8: when no source file qualifies for long calls the linker is not run,
\* relocatable.o exists with size 0, the script goes on (it does not end at
\* the link step) and needed_words is the ceiling of reserve / 4.
C8_EmptyLongCalls ==
    (relocatable # None /\ long_calls = {}) =>
        /\ \A k \in 1..Len(calls) : calls[k].tool # "LD"
        /\ relocatable = 0
        /\ pc \in AfterMeasure =>
              4 * needed_words >= reserve /\ 4 * needed_words < reserve + 4

\* C8's case: every source file is a short-call one and the run completed
\* with a reserve of 3 bytes.
C8_Witness ==
    /\ pc = "done"
    /\ a_c \in listdir
    /\ long_calls = {}
    /\ reserve = 3
    /\ needed_words = 1

\* C9: for non-negative size and reserve, needed_words is the ceiling of
\* (size + reserve) / 4, with no extra word when the sum is a multiple of 4.
C9_NeededWordsIsCeiling ==
    (pc \in AfterMeasure /\ relocatable >= 0 /\ reserve >= 0) =>
        /\ 4 * needed_words >= relocatable + reserve
        /\ 4 * needed_words < relocatable + reserve + 4
        /\ (relocatable + reserve) % 4 = 0 =>
              4 * needed_words = relocatable + reserve

\* C9's case: a linked object of 1 byte and a reserve of 3 make one word.
C9_Witness ==
    /\ pc \in AfterMeasure
    /\ relocatable = 1
    /\ reserve = 3
    /\ needed_words = 1

\* C10: the normalized start address has the offset_mask bit set, the rounding
\* introduced no higher bit, and the seek offset is the address less offset_mask.
C10_StartInsideWindow ==
    pc \in AfterMeasure =>
        LET ored == BitOr(ParseInt(cfg.free_space, 16).val, offset_mask)
        IN  /\ HasBit(free_space, offset_mask)
            /\ free_space \div (2 * offset_mask) = ored \div (2 * offset_mask)
            /\ SeekOffset(free_space) = free_space - offset_mask

\* A text of an optional sign, the prefix 0x when allowed, and one or more of
\* the given characters.
NumberText(s, chars, prefixed) ==
    LET s1 == IF s # <<>> /\ Head(s) \in {"-", "+"} THEN Tail(s) ELSE s
        s2 == IF prefixed /\ Len(s1) >= 2 /\ s1[1] = "0" /\ s1[2] \in {"x", "X"}
              THEN SubSeq(s1, 3, Len(s1)) ELSE s1
    IN  s2 # <<>> /\ \A i \in 1..Len(s2) : s2[i] \in chars

DecimalChars == {"0", "1", "2", "3", "4", "5", "6", "7", "8", "9"}
HexChars == DecimalChars \cup {"a", "b", "c", "d", "e", "f", "A", "B", "C", "D", "E", "F"}

\* config.ini holds a free-space that is no hexadecimal integer, a reserve
\* that is no decimal integer, or an optimization level outside the fixed set.
ConfigError ==
    \/ ~NumberText(cfg.free_space, HexChars, TRUE)
    \/ ~NumberText(cfg.reserve, DecimalChars, FALSE)
    \/ cfg.optimization_level \notin
          {"-O", "-O0", "-O1", "-O2", "-O3", "-Ofast", "-Og", "-Os"}

\* C11: with a configuration error the script never gets past validation: no
\* tool is run, the build directory is not touched, and when the process has
\* ended its exit code is 1.
C11_ConfigErrorStopsFirst ==
    ConfigError =>
        /\ pc \in {"validate", "exit"}
        /\ calls = <<>>
        /\ ~build_clean
        /\ relocatable = None
        /\ ~out_open
        /\ pc = "exit" => exit_code = 1

\* C11's case: both numbers are well formed, the optimization level is not
\* understood, and the run has ended.
C11_Witness ==
    /\ pc = "exit"
    /\ exit_code = 1
    /\ cfg.optimization_level = "-Oz"
    /\ NumberText(cfg.free_space, HexChars, TRUE)
    /\ NumberText(cfg.reserve, DecimalChars, FALSE)

\* ------------------------------------------------ the alignment on its own
\* Hints and reserves of AlignSpec: every hexadecimal text of one digit, or of
\* 1 and one digit, and every decimal text of one digit.
AlignFreeSpace ==
    {<<Digits[d]>> : d \in 1..16} \cup {<<"1", Digits[d]>> : d \in 1..16}
AlignReserve == {<<Digits[d]>> : d \in 1..10}

\* The state in which lines 133-137 run, for a project without sources:
\* nothing was compiled or linked and relocatable.o is empty.
AlignInit ==
    /\ pc = "measure"
    /\ cfg \in [free_space : AlignFreeSpace, reserve : AlignReserve,
                optimization_level : {"-O2"}]
    /\ short_calls = {} /\ defines = <<>> /\ listdir = {}
    /\ rom = RomScenario
    /\ free_space = ParseInt(cfg.free_space, 16).val
    /\ reserve = ParseInt(cfg.reserve, 10).val
    /\ build_clean = TRUE
    /\ todo = {} /\ long_calls = {} /\ calls = <<>>
    /\ relocatable = 0
    /\ needed_words = 0
    /\ rom_open = FALSE /\ tell = 0 /\ record = 0 /\ start = None
    /\ allocation = None
    /\ outstream = <<>> /\ out_open = FALSE
    /\ exit_code = None

AlignNext == Measure

AlignSpec == AlignInit /\ [][AlignNext]_vars

\* The address line 137 aligns: the hint with the offset_mask bit set.
HintAddress == BitOr(ParseInt(cfg.free_space, 16).val, offset_mask)

\* C12 as stated: aligning the aligned address again changes nothing, and
\* addr, addr + 1, addr + 2 and addr + 3 all align to the same value.
C12_FourNeighboursAgree ==
    pc = "armips" =>
        /\ round_up_to_4(free_space) = free_space
        /\ \A k \in 0..3 : round_up_to_4(HintAddress + k) = free_space

\* C12 as amended: the aligned address is the least multiple of 4 that is
\* >= addr, aligning it again changes nothing, and addr + k (k in 0..3) aligns
\* to the same value exactly when it does not lie past that value.
C12_NextMultipleOfFour ==
    pc = "armips" =>
        /\ free_space % 4 = 0
        /\ HintAddress <= free_space
        /\ free_space < HintAddress + 4
        /\ round_up_to_4(free_space) = free_space
        /\ \A k \in 0..3 :
              round_up_to_4(HintAddress + k) = free_space
                  <=> HintAddress + k <= free_space

\* C12's case: an address one past a multiple of 4 was aligned, the case in
\* which all four neighbours agree.
C12_Witness ==
    /\ pc = "armips"
    /\ HintAddress % 4 = 1
    /\ free_space = HintAddress + 3
    /\ \A k \in 0..3 : round_up_to_4(HintAddress + k) = free_space

RECURSIVE ErasedEndingAt(_, _, _)
\* The number of consecutive erased words of the image that end at offset to,
\* counting back no further than offset from; a partial word is not erased.
ErasedEndingAt(image, from, to) ==
    IF (to - from) % 4 # 0 \/ to - 4 < from THEN 0
    ELSE IF ReadBytes(image, to - 4, 4) # <<255, 255, 255, 255>> THEN 0
    ELSE 1 + ErasedEndingAt(image, from, to - 4)

\* C13: at the loop test, when the word just read was not erased (start is
\* cleared) record is 0; after each word read record is the number of
\* consecutive erased words ending at that word.
C13_NonErasedResetsRun ==
    /\ (pc = "while" /\ start = None) => record = 0
    /\ (pc = "while" /\ rom_open /\ tell > SeekOffset(free_space)) =>
            record = ErasedEndingAt(rom, SeekOffset(free_space), tell)

\* C14: an address returned by find_needed_words for needed_words > 0 is a
\* multiple of 4 and is not below the normalized start address.
C14_ReturnedAlignedAndForward ==
    Returned => allocation % 4 = 0 /\ allocation >= free_space

\* C14's case: an address past the start address was returned from an image
\* whose length is no multiple of 4.
C14_Witness ==
    /\ Returned
    /\ Len(rom) % 4 # 0
    /\ allocation > free_space

\* C15: needed_words is not negative when find_needed_words is called, and
\* the locator never fails on start being None.
C15_NeededWordsNonNegative ==
    /\ pc \in InLocator => needed_words >= 0
    /\ pc # "crashed"

====
